---- MODULE Spec2Model ----
(***************************************************************************)
(* A model of json_md.py: the report renderer create_md_file, the metadata *)
(* renderer create_meta_file and the orchestrator proc_task.               *)
(*                                                                         *)
(* Python text is a TLA+ string, handled character by character.  A Python *)
(* value is a record tagged with its Python type; a dict is a TLA+ record  *)
(* whose DOMAIN is the set of keys that are present.  An operation that    *)
(* can raise yields Ok(value) or Raise(exception name).                    *)
(***************************************************************************)
EXTENDS Integers, Sequences, FiniteSets, TLC

VARIABLES op, args, pc, result, record_ids, calls

vars == <<op, args, pc, result, record_ids, calls>>

(***************************************************************************)
(* Bounds of the model.                                                    *)
(***************************************************************************)
MaxAttach == 2
MaxSubTasks == 2
MaxCalls == 2
MaxUuid == 3

(***************************************************************************)
(* Python values and exceptions.                                           *)
(***************************************************************************)
PyNone == [type |-> "NoneType"]
PyStr(s) == [type |-> "str", s |-> s]
PyInt(n) == [type |-> "int", n |-> n]
PyList(xs) == [type |-> "list", xs |-> xs]
PyUUID(id) == [type |-> "UUID", id |-> id]

Ok(v) == [exc |-> "", val |-> v]
Raise(e) == [exc |-> e]
IsOk(r) == r.exc = ""

\* bool(v) of a Python value: None, "" and [] are false.
Truthy(v) ==
    CASE v.type = "NoneType" -> FALSE
      [] v.type = "str" -> v.s # ""
      [] v.type = "list" -> Len(v.xs) > 0
      [] v.type = "int" -> v.n # 0
      [] OTHER -> TRUE

\* A dict is a record of its keys; every other value carries its type.
IsDict(d) == "type" \notin DOMAIN d

\* d.get(k): None when the key is absent
GetItem_Get(d, k) ==
    IF ~IsDict(d) THEN Raise("TypeError")
    ELSE IF k \in DOMAIN d THEN Ok(d[k]) ELSE Ok(PyNone)

\* d[k]: KeyError when the key is absent; only a dict takes a text as index.
GetItem(d, k) ==
    IF ~IsDict(d) THEN Raise("TypeError")
    ELSE IF k \in DOMAIN d THEN Ok(d[k]) ELSE Raise("KeyError")

\* a + b: defined for two str; a UUID has no __add__ and str no __radd__.
Add(a, b) ==
    IF a.type = "str" /\ b.type = "str"
    THEN Ok(PyStr(a.s \o b.s))
    ELSE Raise("TypeError")

\* The sequences over S of length at most n.
SeqsUpTo(S, n) == UNION {[1..k -> S] : k \in 0..n}

(***************************************************************************)
(* Text helpers.                                                           *)
(***************************************************************************)
Char(s, i) == SubSeq(s, i, i)

Min(S) == CHOOSE m \in S : \A n \in S : m <= n

\* The first index >= from at which character c occurs in s, 0 if none.
Find(s, c, from) ==
    LET hits == {i \in from..Len(s) : Char(s, i) = c}
    IN IF hits = {} THEN 0 ELSE Min(hits)

\* The first index >= from at which sub occurs in s, 0 if none.
FindStr(s, sub, from) ==
    LET hits == {i \in from..(Len(s) - Len(sub) + 1) : SubSeq(s, i, i + Len(sub) - 1) = sub}
    IN IF hits = {} THEN 0 ELSE Min(hits)

Contains(s, sub) == FindStr(s, sub, 1) # 0

Digits == <<"0", "1", "2", "3", "4", "5", "6", "7", "8", "9">>

RECURSIVE NatToStr(_)
NatToStr(n) == IF n < 10 THEN Digits[n + 1] ELSE NatToStr(n \div 10) \o Digits[(n % 10) + 1]

\* The hexadecimal text of a UUID; the model's UUIDs are numbered.
UuidText(n) == "0000000" \o NatToStr(n) \o "-0000-4000-8000-000000000000"

\* str(v)
ToStr(v) ==
    CASE v.type = "str" -> v.s
      [] v.type = "int" -> IF v.n < 0 THEN "-" \o NatToStr(-v.n) ELSE NatToStr(v.n)
      [] v.type = "NoneType" -> "None"
      [] v.type = "UUID" -> UuidText(v.id)
      [] OTHER -> "?"

Whitespace == {" ", "\t", "\n", "\r", "\f"}

\* bool(line.strip()): some character of the line is not whitespace.
StripTruthy(line) == \E i \in 1..Len(line) : Char(line, i) \notin Whitespace

\* str.splitlines(): "\n", "\r" and "\r\n" end a line; no empty last line.
RECURSIVE SplitLinesFrom(_, _)
SplitLinesFrom(s, from) ==
    IF from > Len(s) THEN <<>>
    ELSE LET n == Find(s, "\n", from)
             r == Find(s, "\r", from)
             e == IF n = 0 THEN r ELSE IF r = 0 THEN n ELSE Min({n, r})
         IN IF e = 0 THEN <<SubSeq(s, from, Len(s))>>
            ELSE LET next == IF Char(s, e) = "\r" /\ e < Len(s) /\ Char(s, e + 1) = "\n"
                             THEN e + 2 ELSE e + 1
                 IN <<SubSeq(s, from, e - 1)>> \o SplitLinesFrom(s, next)

SplitLines(s) == SplitLinesFrom(s, 1)

\* sep.join(xs) for a sequence of texts
RECURSIVE Join(_, _)
Join(sep, xs) ==
    IF Len(xs) = 0 THEN ""
    ELSE IF Len(xs) = 1 THEN xs[1]
    ELSE xs[1] \o sep \o Join(sep, Tail(xs))

\* [line for line in lines if line.strip()]
NonBlank(lines) == SelectSeq(lines, StripTruthy)

\* template.format(**d): every {name} is replaced by format(d[name]).
RECURSIVE FormatFrom(_, _, _)
FormatFrom(template, d, from) ==
    LET open == Find(template, "{", from)
    IN IF open = 0 THEN SubSeq(template, from, Len(template))
       ELSE LET close == Find(template, "}", open)
                name == SubSeq(template, open + 1, close - 1)
            IN SubSeq(template, from, open - 1) \o ToStr(d[name])
                 \o FormatFrom(template, d, close + 1)

Format(template, d) == FormatFrom(template, d, 1)

(***************************************************************************)
(* create_md_file                                                          *)
(***************************************************************************)
main_task_template ==
    "# Summary\n{summary}\n## Description\n{description}\n## Task Info\n* Status: {status}\n* Updated: {updated}\n* Issuetype: {issuetype}\n## Labels\n{labels}\n## Market Affected Field Name\n{marketAffectedFieldName}\n## Acceptance Criteria Field Name\n{acceptanceCriteriaFieldName}\n---\n"

attachment_template ==
    "{file_name}\n* ID: {file_id}\n* Created: {created}\n* File Size: {size}\n* Download URL: {url}\n---\n"

sub_tasks_template ==
    "{summary}\n* Key: {key}\n* URL: {url}\n---\n"

AttachmentHeader == "## Attachment\n"
SubTasksHeader == "## Sub Tasks\n"

\* for x in xs: md_content += template.format(**x)
RECURSIVE AppendBlocks(_, _, _, _)
AppendBlocks(md_content, template, xs, i) ==
    IF i > Len(xs) THEN md_content
    ELSE AppendBlocks(md_content \o Format(template, xs[i]), template, xs, i + 1)

\* AttachmentSection without the test of line 34: the header is always written.
AttachmentSection_NoGuard(md_content, attach_list) ==
    AppendBlocks(md_content \o AttachmentHeader, attachment_template, attach_list, 1)

AttachmentSection(md_content, attach_list) ==
    IF Len(attach_list) > 0
    THEN AppendBlocks(md_content \o AttachmentHeader, attachment_template, attach_list, 1)
    ELSE md_content

SubTasksSection(md_content, sub_task_list) ==
    IF Len(sub_task_list) > 0
    THEN AppendBlocks(md_content \o SubTasksHeader, sub_tasks_template, sub_task_list, 1)
    ELSE md_content

\* create_md_file with the two sections written in the other order.
create_md_file_SubTasksFirst(md_dict, attach_list, sub_task_list) ==
    AttachmentSection(
        SubTasksSection(Format(main_task_template, md_dict), sub_task_list),
        attach_list)

create_md_file(md_dict, attach_list, sub_task_list) ==
    SubTasksSection(
        AttachmentSection(Format(main_task_template, md_dict), attach_list),
        sub_task_list)

(***************************************************************************)
(* json.dumps and json.loads, for a flat dict of None, int and str values. *)
(***************************************************************************)
NonAscii == {"é"}

\* One character of a JSON string: the quote, the backslash and the control
\* characters are escaped; a non-ASCII character only under ensure_ascii.
EscapeChar(c, ensure_ascii) ==
    CASE c = "\"" -> "\\\""
      [] c = "\\" -> "\\\\"
      [] c = "\n" -> "\\n"
      [] c = "\r" -> "\\r"
      [] c = "\t" -> "\\t"
      [] c = "\f" -> "\\f"
      [] c = "é" /\ ensure_ascii -> "\\u00e9"
      [] OTHER -> c

RECURSIVE EscapeFrom(_, _, _)
EscapeFrom(s, i, ensure_ascii) ==
    IF i > Len(s) THEN ""
    ELSE EscapeChar(Char(s, i), ensure_ascii) \o EscapeFrom(s, i + 1, ensure_ascii)

\* The encoding of one value; a UUID object is not JSON serializable.
JsonEncode(v, ensure_ascii) ==
    CASE v.type = "NoneType" -> Ok("null")
      [] v.type = "int" -> Ok(ToStr(v))
      [] v.type = "str" -> Ok("\"" \o EscapeFrom(v.s, 1, ensure_ascii) \o "\"")
      [] OTHER -> Raise("TypeError")

\* json.dumps(d, ensure_ascii=...) for the keys in their insertion order
RECURSIVE DumpItems(_, _, _, _)
DumpItems(d, keys, i, ensure_ascii) ==
    IF i > Len(keys) THEN Ok("")
    ELSE LET v == JsonEncode(d[keys[i]], ensure_ascii)
             rest == DumpItems(d, keys, i + 1, ensure_ascii)
         IN IF ~IsOk(v) THEN v
            ELSE IF ~IsOk(rest) THEN rest
            ELSE Ok((IF i > 1 THEN ", " ELSE "") \o "\"" \o keys[i] \o "\": " \o v.val \o rest.val)

JsonDumps(d, keys, ensure_ascii) ==
    LET items == DumpItems(d, keys, 1, ensure_ascii)
    IN IF IsOk(items) THEN Ok("{" \o items.val \o "}") ELSE items

UnescapeChar(c) ==
    CASE c = "n" -> "\n"
      [] c = "r" -> "\r"
      [] c = "t" -> "\t"
      [] c = "f" -> "\f"
      [] OTHER -> c

\* The text of the JSON string whose opening quote is before index i, and the
\* index after its closing quote.
RECURSIVE ParseString(_, _, _)
ParseString(text, i, acc) ==
    LET c == Char(text, i)
    IN IF c = "\"" THEN [val |-> acc, next |-> i + 1]
       ELSE IF c = "\\"
            THEN IF Char(text, i + 1) = "u"
                 THEN ParseString(text, i + 6,
                          acc \o (IF SubSeq(text, i + 2, i + 5) = "00e9" THEN "é" ELSE "?"))
                 ELSE ParseString(text, i + 2, acc \o UnescapeChar(Char(text, i + 1)))
            ELSE ParseString(text, i + 1, acc \o c)

DigitValue(c) == CHOOSE n \in 0..9 : Digits[n + 1] = c
IsDigit(c) == \E n \in 1..10 : Digits[n] = c

RECURSIVE ParseNat(_, _, _)
ParseNat(text, i, acc) ==
    IF i <= Len(text) /\ IsDigit(Char(text, i))
    THEN ParseNat(text, i + 1, 10 * acc + DigitValue(Char(text, i)))
    ELSE [val |-> acc, next |-> i]

\* One value at index i: a string, null, or an integer.
ParseValue(text, i) ==
    LET c == Char(text, i)
    IN IF c = "\""
       THEN LET r == ParseString(text, i + 1, "") IN [val |-> PyStr(r.val), next |-> r.next]
       ELSE IF c = "n" THEN [val |-> PyNone, next |-> i + 4]
       ELSE IF c = "-"
       THEN LET r == ParseNat(text, i + 1, 0) IN [val |-> PyInt(-r.val), next |-> r.next]
       ELSE LET r == ParseNat(text, i, 0) IN [val |-> PyInt(r.val), next |-> r.next]

\* The items of an object from index i (after "{" or after ", ")
RECURSIVE ParseItems(_, _, _)
ParseItems(text, i, acc) ==
    IF Char(text, i) = "}" THEN acc
    ELSE LET k == ParseString(text, i + 1, "")
             v == ParseValue(text, k.next + 2)
             more == IF Char(text, v.next) = "," THEN v.next + 2 ELSE v.next
         IN ParseItems(text, more, acc @@ (k.val :> v.val))

\* json.loads of the text of a flat object
JsonLoads(text) == ParseItems(text, 2, <<>>)

(***************************************************************************)
(* create_meta_file                                                        *)
(***************************************************************************)
MetaKeys ==
    <<"level", "title", "file_name", "file_record_id", "file_original_name",
      "file_original_path", "source", "value_stream", "categories",
      "parent_file_name", "attachment_type", "owner">>

\* The defaults of the signature
MetaDefaults ==
    [level |-> PyInt(0), title |-> PyNone, file_name |-> PyNone,
     file_record_id |-> PyNone, file_original_name |-> PyNone,
     file_original_path |-> PyNone, source |-> PyNone, value_stream |-> PyNone,
     categories |-> PyNone, parent_file_name |-> PyNone,
     attachment_type |-> PyStr("file"), owner |-> PyNone]

\* meta_content for the keyword arguments kw: an argument not passed has its default.
MetaContent(kw) ==
    [k \in DOMAIN MetaDefaults |-> IF k \in DOMAIN kw THEN kw[k] ELSE MetaDefaults[k]]

create_meta_file(kw) == JsonDumps(MetaContent(kw), MetaKeys, FALSE)

(***************************************************************************)
(* proc_task                                                               *)
(***************************************************************************)
\* The first failure among results listed in evaluation order
Failed(steps) == \E i \in 1..Len(steps) : ~IsOk(steps[i])
FirstFailure(steps) == steps[Min({i \in 1..Len(steps) : ~IsOk(steps[i])})]

\* d[k1][k2]
GetItem2(d, k1, k2) ==
    LET inner == GetItem(d, k1)
    IN IF IsOk(inner) THEN GetItem(inner.val, k2) ELSE inner

\* uuid4(): an identifier that no earlier call was given
uuid4(used) == {PyUUID(n) : n \in (1..MaxUuid) \ used}

SelectMainTask(json_result, is_main_task) ==
    IF is_main_task
    THEN LET issues == GetItem(json_result, "issues")
         IN IF ~IsOk(issues) THEN issues
            ELSE IF issues.val.type # "list" THEN Raise("TypeError")
            ELSE IF Len(issues.val.xs) = 0 THEN Raise("IndexError")
            ELSE Ok(issues.val.xs[1])
    ELSE Ok(json_result)

Texts(xs) == [i \in 1..Len(xs) |-> xs[i].s]
Chars(s) == [i \in 1..Len(s) |-> Char(s, i)]

\* sep.join(v): v is a list of str (or a str, joined character by character)
JoinValue(sep, v) ==
    IF v.type = "list" /\ \A i \in 1..Len(v.xs) : ~IsDict(v.xs[i]) /\ v.xs[i].type = "str"
    THEN Ok(PyStr(Join(sep, Texts(v.xs))))
    ELSE IF v.type = "str" THEN Ok(PyStr(Join(sep, Chars(v.s))))
    ELSE Raise("TypeError")

\* sep.join(line for line in v.splitlines() if line.strip()): v is a str
JoinLines(sep, v) ==
    IF v.type = "str" THEN Ok(PyStr(Join(sep, NonBlank(SplitLines(v.s)))))
    ELSE Raise("AttributeError")

Acfn(fields) ==
    LET cf == GetItem(fields, "customfield_27708")
    IN IF ~IsOk(cf) THEN cf
       ELSE IF Truthy(cf.val) THEN JoinLines("\n", cf.val)
       ELSE Ok(PyStr(""))

Mafn(fields) ==
    LET cf == GetItem(fields, "customfield_26615")
    IN IF ~IsOk(cf) THEN cf
       ELSE IF Truthy(cf.val)
       THEN IF cf.val.type = "list" THEN GetItem(cf.val.xs[1], "value") ELSE Raise("TypeError")
       ELSE Ok(PyStr(""))

BuildMdDict(fields) ==
    LET labels == LET v == GetItem(fields, "labels")
                  IN IF IsOk(v) THEN JoinValue(", ", v.val) ELSE v
        description == LET v == GetItem(fields, "description")
                       IN IF IsOk(v) THEN JoinLines(" ", v.val) ELSE v
        acfn == Acfn(fields)
        mafn == Mafn(fields)
        summary == GetItem(fields, "summary")
        status == GetItem2(fields, "status", "name")
        updated == GetItem(fields, "updated")
        issuetype == GetItem2(fields, "issuetype", "name")
        steps == <<labels, description, acfn, mafn, summary, status, updated, issuetype>>
    IN IF Failed(steps) THEN FirstFailure(steps)
       ELSE Ok([summary |-> summary.val,
                description |-> description.val,
                status |-> status.val,
                updated |-> updated.val,
                issuetype |-> issuetype.val,
                labels |-> labels.val,
                marketAffectedFieldName |-> mafn.val,
                acceptanceCriteriaFieldName |-> acfn.val])

AttachDict(info) ==
    LET steps == <<GetItem(info, "id"), GetItem(info, "filename"), GetItem(info, "created"),
                   GetItem(info, "size"), GetItem(info, "content")>>
    IN IF Failed(steps) THEN FirstFailure(steps)
       ELSE Ok([file_id |-> steps[1].val, file_name |-> steps[2].val,
                created |-> steps[3].val, size |-> steps[4].val, url |-> steps[5].val])

\* The list of the values of steps, or the first failure among them
Collect(steps) ==
    IF Failed(steps) THEN FirstFailure(steps)
    ELSE Ok([i \in 1..Len(steps) |-> steps[i].val])

BuildAttachList(fields) ==
    LET attachment == GetItem(fields, "attachment")
    IN IF ~IsOk(attachment) THEN attachment
       ELSE IF Truthy(attachment.val)
       THEN IF attachment.val.type = "list" THEN Collect([i \in 1..Len(attachment.val.xs) |-> AttachDict(attachment.val.xs[i])])
            ELSE Raise("TypeError")
       ELSE Ok(<<>>)

SubTaskDict(sub_task) ==
    LET steps == <<GetItem2(sub_task, "fields", "summary"), GetItem(sub_task, "key"),
                   GetItem(sub_task, "self")>>
    IN IF Failed(steps) THEN FirstFailure(steps)
       ELSE Ok([summary |-> steps[1].val, key |-> steps[2].val, url |-> steps[3].val])

\* BuildSubTaskList taking every issue, the first one too
BuildSubTaskList_AllIssues(json_result) ==
    LET issues == GetItem(json_result, "issues")
    IN IF ~IsOk(issues) THEN issues
       ELSE IF issues.val.type # "list" THEN Raise("TypeError")
       ELSE IF Len(issues.val.xs) > 1
       THEN Collect([i \in 1..Len(issues.val.xs) |-> SubTaskDict(issues.val.xs[i])])
       ELSE Ok(<<>>)

BuildSubTaskList(json_result) ==
    LET issues == GetItem(json_result, "issues")
    IN IF ~IsOk(issues) THEN issues
       ELSE IF issues.val.type # "list" THEN Raise("TypeError")
       ELSE IF Len(issues.val.xs) > 1
       THEN Collect([i \in 1..(Len(issues.val.xs) - 1) |-> SubTaskDict(issues.val.xs[i + 1])])
       ELSE Ok(<<>>)

\* Lines 85-123, from the results of the three builders in their order
ExtractLists(main_task, file_name, md_dict, attach_list, sub_task_list) ==
    IF ~IsOk(md_dict) THEN md_dict
    ELSE IF ~IsOk(attach_list) THEN attach_list
    ELSE IF ~IsOk(sub_task_list) THEN sub_task_list
    ELSE Ok([main_task |-> main_task, file_name |-> file_name,
             md_dict |-> md_dict.val, attach_list |-> attach_list.val,
             sub_task_list |-> sub_task_list.val])

\* Lines 81-123, from main_task['fields'] and main_task['key']
ExtractFields(json_result, main_task, fields, file_name) ==
    IF ~IsOk(fields) THEN fields
    ELSE IF ~IsOk(file_name) THEN file_name
    ELSE ExtractLists(main_task, file_name.val, BuildMdDict(fields.val),
                      BuildAttachList(fields.val), BuildSubTaskList(json_result))

\* Lines 77-123: the main task, its flat mapping and the two lists.
ExtractMain(json_result, main_task) ==
    IF ~IsOk(main_task) THEN main_task
    ELSE ExtractFields(json_result, main_task.val, GetItem(main_task.val, "fields"),
                       GetItem(main_task.val, "key"))

Extract(json_result, is_main_task) ==
    ExtractMain(json_result, SelectMainTask(json_result, is_main_task))

\* main_task['self'] + '/' + md_file_name (line 135)
AddPath(dir, md_file_name) == IF IsOk(dir) THEN Add(dir.val, md_file_name) ELSE dir
AddSlash(self) == IF IsOk(self) THEN Add(self.val, PyStr("/")) ELSE self
OriginalPath(main_task, md_file_name) ==
    AddPath(AddSlash(GetItem(main_task, "self")), md_file_name)

\* Lines 129-142: the metadata text, from the path of line 135
MainMeta(e, record_id, md_file_name, path) ==
    IF ~IsOk(path) THEN path
    ELSE create_meta_file(
             [level |-> PyInt(0),
              title |-> e.md_dict.summary,
              file_name |-> md_file_name,
              file_record_id |-> record_id,
              file_original_name |-> e.md_dict.summary,
              file_original_path |-> path.val,
              source |-> PyStr("jira-iwpb"),
              value_stream |-> PyStr(""),
              categories |-> PyStr(""),
              parent_file_name |-> PyNone,
              attachment_type |-> PyStr("file"),
              owner |-> PyStr("")])

\* Line 143: the three values returned
Return(main_md_content, main_meta_content, file_name) ==
    IF ~IsOk(main_meta_content) THEN main_meta_content
    ELSE Ok(<<main_md_content, main_meta_content.val, file_name>>)

\* Lines 126-143: the two texts and the key.
Render(e, record_id, md_file_name) ==
    Return(create_md_file(e.md_dict, e.attach_list, e.sub_task_list),
           MainMeta(e, record_id, md_file_name, OriginalPath(e.main_task, md_file_name)),
           e.file_name)

\* Lines 77-143, from the file name of line 76
ProcTaskBody(e, record_id, md_file_name) ==
    IF ~IsOk(md_file_name) THEN md_file_name
    ELSE IF ~IsOk(e) THEN e
    ELSE Render(e.val, record_id, md_file_name.val)

\* proc_task, with record_id the value uuid4() gave (line 75)
proc_task(json_result, is_main_task, record_id) ==
    ProcTaskBody(Extract(json_result, is_main_task), record_id, Add(record_id, PyStr(".md")))

(***************************************************************************)
(* Inputs of the renderers.                                                *)
(***************************************************************************)
MdDict(summary, acfn) ==
    [summary |-> PyStr(summary),
     description |-> PyStr("line1 line2"),
     status |-> PyStr("Open"),
     updated |-> PyStr("2024-01-02"),
     issuetype |-> PyStr("Story"),
     labels |-> PyStr("a, b"),
     marketAffectedFieldName |-> PyStr("UK"),
     acceptanceCriteriaFieldName |-> PyStr(acfn)]

MdDicts ==
    {MdDict(s, a) : s \in {"Fix login", "## Attachment"},
                    a \in {"", "Given a\n## Sub Tasks\nThen b"}}

AttachDicts ==
    {[file_id |-> PyStr("1"), file_name |-> PyStr("f.png"), created |-> PyStr("2024-01-01"),
      size |-> PyInt(100), url |-> PyStr("http://x")],
     [file_id |-> PyStr("2"), file_name |-> PyStr("g.txt"), created |-> PyStr("2024-01-03"),
      size |-> PyInt(0), url |-> PyStr("http://y")]}

SubTaskDicts ==
    {[summary |-> PyStr("Sub one"), key |-> PyStr("T-2"), url |-> PyStr("http://j/2")],
     [summary |-> PyStr("## Attachment"), key |-> PyStr("T-3"), url |-> PyStr("http://j/3")]}

MetaKwargs ==
    [level : {PyInt(0), PyInt(12)},
     title : {PyNone, PyStr(""), PyStr("Fix \"login\"\\ é\n")},
     file_name : {PyNone, PyStr(UuidText(1) \o ".md")},
     file_record_id : {PyNone, PyStr(UuidText(1)), PyUUID(1)},
     file_original_name : {PyStr("Fix login")},
     file_original_path : {PyStr("http://j/1/" \o UuidText(1) \o ".md")},
     source : {PyStr("jira-iwpb")},
     value_stream : {PyStr("")},
     categories : {PyStr("")},
     parent_file_name : {PyNone, PyStr("p.md")},
     attachment_type : {PyStr("file")},
     owner : {PyStr(""), PyStr("é")}]
    \cup [title : {PyStr("t")}, file_record_id : {PyStr(UuidText(2)), PyUUID(2)}]
    \cup {<<>>}

(***************************************************************************)
(* Inputs of proc_task.                                                    *)
(***************************************************************************)
\* d without the key k
Without(d, k) == [x \in DOMAIN d \ {k} |-> d[x]]

\* A value that stands for "the key is absent" when records are built
Absent == [type |-> "absent"]

\* d with key k set to v, or without it when v is Absent
Put(d, k, v) == IF v.type = "absent" THEN Without(d, k) ELSE Without(d, k) @@ (k :> v)

AttachInfos ==
    {[id |-> PyStr("1"), filename |-> PyStr("f.png"), created |-> PyStr("2024-01-01"),
      size |-> PyInt(100), content |-> PyStr("http://x")],
     [id |-> PyStr("2"), filename |-> PyStr("g.txt"), created |-> PyStr("2024-01-03"),
      size |-> PyInt(0), content |-> PyStr("http://y")]}

BaseFields ==
    [summary |-> PyStr("Fix login"),
     description |-> PyStr("line1\n\nline2\n "),
     status |-> [name |-> PyStr("Open")],
     updated |-> PyStr("2024-01-02"),
     issuetype |-> [name |-> PyStr("Story")],
     labels |-> PyList(<<PyStr("a"), PyStr("b")>>),
     customfield_27708 |-> PyStr("Given a\n\n \r\nThen b\n"),
     customfield_26615 |-> PyList(<<[value |-> PyStr("UK")], [value |-> PyStr("FR")]>>),
     attachment |-> PyList(<<>>)]

BaseIssue == [fields |-> BaseFields, key |-> PyStr("T-1"), self |-> PyStr("http://j/1")]

\* The main tasks that differ in the two custom fields and the attachments
OptionalVariants ==
    {[BaseIssue EXCEPT !.fields =
          Put(Put(Put(BaseFields, "customfield_27708", ac), "customfield_26615", ma),
              "attachment", at)] :
        ac \in {Absent, PyNone, PyStr(""), BaseFields.customfield_27708},
        ma \in {Absent, PyNone, PyList(<<>>), BaseFields.customfield_26615},
        at \in {Absent, PyNone} \cup {PyList(xs) : xs \in SeqsUpTo(AttachInfos, MaxAttach)}}

RequiredFields == {"summary", "description", "status", "updated", "issuetype", "labels"}

\* The main tasks with one required field absent
MissingRequired ==
    {[BaseIssue EXCEPT !.fields = Without(BaseFields, k)] : k \in RequiredFields}
    \cup {[BaseIssue EXCEPT !.fields.status = <<>>], [BaseIssue EXCEPT !.fields.issuetype = <<>>],
          Without(BaseIssue, "key"), Without(BaseIssue, "self")}

SubIssues ==
    {[fields |-> [summary |-> PyStr("Sub one")], key |-> PyStr("T-2"), self |-> PyStr("http://j/2")],
     [fields |-> [summary |-> PyStr("Sub two")], key |-> PyStr("T-3"), self |-> PyStr("http://j/3")]}

RootDoc(issues) == [issues |-> PyList(issues)]

\* Well-formed: every field the code reads is present.
WellFormedIssues == OptionalVariants \ {i \in OptionalVariants :
    {"customfield_27708", "customfield_26615", "attachment"} \ DOMAIN i.fields # {}}

ExtractInputs ==
    [json_result : {RootDoc(<<m>>) : m \in OptionalVariants \cup MissingRequired}, is_main_task : {TRUE}]
    \cup [json_result : {RootDoc(<<m>> \o subs) : m \in {BaseIssue} \cup MissingRequired,
                                                 subs \in SeqsUpTo(SubIssues, MaxSubTasks)}
                       \cup {RootDoc(<<>>)},
           is_main_task : {TRUE}]
    \cup [json_result : WellFormedIssues \cup MissingRequired \cup {RootDoc(<<BaseIssue>>)},
           is_main_task : {FALSE}]

ProcTaskInputs ==
    [json_result : {RootDoc(<<BaseIssue>> \o subs) : subs \in SeqsUpTo(SubIssues, 1)}
                   \cup {RootDoc(<<Without(BaseIssue, "self")>>)},
     is_main_task : {TRUE}]
    \cup [json_result : {BaseIssue}, is_main_task : {FALSE}]

(***************************************************************************)
(* The report renderer applied.                                             *)
(***************************************************************************)
\* The operation `o` has been applied to args and result holds what it gave.
Returned(o) == op = o /\ pc = "return"

InitMd ==
    /\ op = "create_md_file"
    /\ pc = "call"
    /\ args \in [md_dict : MdDicts,
                  attach_list : SeqsUpTo(AttachDicts, MaxAttach),
                  sub_task_list : SeqsUpTo(SubTaskDicts, MaxSubTasks)]
    /\ result = <<>>
    /\ record_ids = {}
    /\ calls = <<>>

CallCreateMdFile ==
    /\ op = "create_md_file"
    /\ pc = "call"
    /\ result' = create_md_file(args.md_dict, args.attach_list, args.sub_task_list)
    /\ pc' = "return"
    /\ UNCHANGED <<op, args, record_ids, calls>>

InitMeta ==
    /\ op = "create_meta_file"
    /\ pc = "call"
    /\ args \in MetaKwargs
    /\ result = <<>>
    /\ record_ids = {}
    /\ calls = <<>>

CallCreateMetaFile ==
    /\ op = "create_meta_file"
    /\ pc = "call"
    /\ result' = create_meta_file(args)
    /\ pc' = "return"
    /\ UNCHANGED <<op, args, record_ids, calls>>

(***************************************************************************)
(* The extraction of lines 77-123 applied.                                 *)
(***************************************************************************)
InitExtract ==
    /\ op = "extract"
    /\ pc = "call"
    /\ args \in ExtractInputs
    /\ result = <<>>
    /\ record_ids = {}
    /\ calls = <<>>

Extractor ==
    /\ op = "extract"
    /\ pc = "call"
    /\ result' = Extract(args.json_result, args.is_main_task)
    /\ pc' = "return"
    /\ UNCHANGED <<op, args, record_ids, calls>>

(***************************************************************************)
(* Calls of proc_task, one after the other.                                *)
(***************************************************************************)
InitProcTask ==
    /\ op = "proc_task"
    /\ pc = "idle"
    /\ args = <<>>
    /\ result = <<>>
    /\ record_ids = {}
    /\ calls = <<>>

InvokeProcTask ==
    /\ op = "proc_task"
    /\ pc \in {"idle", "return"}
    /\ Len(calls) < MaxCalls
    /\ args' \in ProcTaskInputs
    /\ pc' = "call"
    /\ UNCHANGED <<op, result, record_ids, calls>>

ProcTask ==
    /\ op = "proc_task"
    /\ pc = "call"
    /\ \E record_id \in uuid4(record_ids) :
          /\ result' = proc_task(args.json_result, args.is_main_task, record_id)
          /\ record_ids' = record_ids \cup {record_id.id}
          /\ calls' = Append(calls, [args |-> args, record_id |-> record_id,
                                     result |-> proc_task(args.json_result,
                                                          args.is_main_task, record_id)])
    /\ pc' = "return"
    /\ UNCHANGED <<op, args>>

Init == InitMd \/ InitMeta \/ InitExtract \/ InitProcTask

Next ==
    \/ CallCreateMdFile
    \/ CallCreateMetaFile
    \/ Extractor
    \/ InvokeProcTask
    \/ ProcTask

Spec == Init /\ [][Next]_vars

(***************************************************************************)
(* Properties of the report (create_md_file).                              *)
(***************************************************************************)
\* text holds a line that is exactly `line`
HasLine(text, line) ==
    \/ SubSeq(text, 1, Len(line) + 1) = line \o "\n"
    \/ Contains(text, "\n" \o line \o "\n")

EndsWith(text, suffix) ==
    /\ Len(text) >= Len(suffix)
    /\ SubSeq(text, Len(text) - Len(suffix) + 1, Len(text)) = suffix

\* The texts substituted into the report by a call of create_md_file.
FieldTexts(a) ==
    {ToStr(a.md_dict[k]) : k \in DOMAIN a.md_dict}
    \cup UNION {{ToStr(a.attach_list[i][k]) : k \in DOMAIN a.attach_list[i]} :
                  i \in 1..Len(a.attach_list)}
    \cup UNION {{ToStr(a.sub_task_list[i][k]) : k \in DOMAIN a.sub_task_list[i]} :
                  i \in 1..Len(a.sub_task_list)}

NoFieldHolds(a, text) == \A v \in FieldTexts(a) : ~Contains(v, text)

\* C6 as stated: in the report, the "## Attachment" line occurs iff the
\* attachment list is non-empty and the "## Sub Tasks" line occurs iff the
\* sub-task list is non-empty.
C6_Original ==
    Returned("create_md_file") =>
        /\ HasLine(result, "## Attachment") <=> Len(args.attach_list) > 0
        /\ HasLine(result, "## Sub Tasks") <=> Len(args.sub_task_list) > 0

\* C6 amended: when no substituted field text holds the header's text, the
\* header line occurs in the report iff its list is non-empty (field texts are
\* written verbatim, so a field that holds the header's text puts it there).
C6_HeaderIffNonEmpty ==
    Returned("create_md_file") =>
        /\ NoFieldHolds(args, "## Attachment") =>
               (HasLine(result, "## Attachment") <=> Len(args.attach_list) > 0)
        /\ NoFieldHolds(args, "## Sub Tasks") =>
               (HasLine(result, "## Sub Tasks") <=> Len(args.sub_task_list) > 0)

C6_Witness ==
    /\ Returned("create_md_file")
    /\ NoFieldHolds(args, "## Attachment")
    /\ NoFieldHolds(args, "## Sub Tasks")
    /\ Len(args.attach_list) = 0
    /\ Len(args.sub_task_list) > 0
    /\ ~HasLine(result, "## Attachment")
    /\ HasLine(result, "## Sub Tasks")

RECURSIVE SumLen(_, _)
SumLen(blocks, k) == IF k = 0 THEN 0 ELSE SumLen(blocks, k - 1) + Len(blocks[k])

\* text holds exactly `part` at offset `at` (0-based)
HoldsAt(text, at, part) == SubSeq(text, at + 1, at + Len(part)) = part

\* C8: the report is the main-task block, then (if any) the attachment header
\* and one block per attachment in input order, then (if any) the sub-task
\* header and one block per sub-task in input order, and nothing else; every
\* block ends with the separator line.
C8_Layout ==
    Returned("create_md_file") =>
        LET main == Format(main_task_template, args.md_dict)
            na == Len(args.attach_list)
            ns == Len(args.sub_task_list)
            ab == [i \in 1..na |-> Format(attachment_template, args.attach_list[i])]
            sb == [i \in 1..ns |-> Format(sub_tasks_template, args.sub_task_list[i])]
            aStart == Len(main) + (IF na > 0 THEN Len("## Attachment\n") ELSE 0)
            aEnd == aStart + SumLen(ab, na)
            sStart == aEnd + (IF ns > 0 THEN Len("## Sub Tasks\n") ELSE 0)
        IN /\ HoldsAt(result, 0, main)
           /\ EndsWith(main, "\n---\n")
           /\ na > 0 => HoldsAt(result, Len(main), "## Attachment\n")
           /\ \A i \in 1..na :
                 /\ HoldsAt(result, aStart + SumLen(ab, i - 1), ab[i])
                 /\ EndsWith(ab[i], "\n---\n")
           /\ ns > 0 => HoldsAt(result, aEnd, "## Sub Tasks\n")
           /\ \A i \in 1..ns :
                 /\ HoldsAt(result, sStart + SumLen(sb, i - 1), sb[i])
                 /\ EndsWith(sb[i], "\n---\n")
           /\ Len(result) = sStart + SumLen(sb, ns)

C8_Witness ==
    /\ Returned("create_md_file")
    /\ Len(args.attach_list) = 2
    /\ args.attach_list[1] # args.attach_list[2]
    /\ Len(args.sub_task_list) = 2
    /\ args.sub_task_list[1] # args.sub_task_list[2]
    /\ FindStr(result, "## Attachment\n* Key", 1) > FindStr(result, "## Sub Tasks\n", 1)
    /\ FindStr(result, "## Sub Tasks\n", 1) > FindStr(result, "## Attachment\nf.png", 1)
    /\ FindStr(result, "## Attachment\nf.png", 1) > 0

(***************************************************************************)
(* Properties of the metadata text (create_meta_file).                     *)
(***************************************************************************)
\* C2 as stated: whatever the twelve values are (empty, absent, or the record
\* identifier as proc_task passes it, a UUID object), create_meta_file does
\* not raise, and decoding its text gives a mapping with the twelve keys
\* whose values are the inputs.
C2_RoundTrip ==
    Returned("create_meta_file") =>
        /\ IsOk(result)
        /\ DOMAIN JsonLoads(result.val) = DOMAIN MetaDefaults
        /\ \A k \in DOMAIN MetaDefaults : JsonLoads(result.val)[k] = MetaContent(args)[k]

\* The round trip holds when the values are None, int or str.
MetaRoundTripOfJsonTypes ==
    Returned("create_meta_file") /\ MetaContent(args).file_record_id.type # "UUID" =>
        /\ IsOk(result)
        /\ DOMAIN JsonLoads(result.val) = DOMAIN MetaDefaults
        /\ \A k \in DOMAIN MetaDefaults : JsonLoads(result.val)[k] = MetaContent(args)[k]

(***************************************************************************)
(* Shapes of the input document.                                           *)
(***************************************************************************)
IsRootDoc(j) == "issues" \in DOMAIN j /\ j.issues.type = "list"

\* Every required field of the task is present.
RequiredPresent(i) ==
    /\ {"fields", "key", "self"} \subseteq DOMAIN i
    /\ RequiredFields \subseteq DOMAIN i.fields
    /\ "name" \in DOMAIN i.fields.status
    /\ "name" \in DOMAIN i.fields.issuetype

\* The keys of the optional fields are present too (their values may be null).
WellFormedIssue(i) ==
    /\ RequiredPresent(i)
    /\ {"customfield_27708", "customfield_26615", "attachment"} \subseteq DOMAIN i.fields

WellFormedSubIssue(i) ==
    /\ {"fields", "key", "self"} \subseteq DOMAIN i
    /\ "summary" \in DOMAIN i.fields

WellFormedRoot(j) ==
    /\ IsRootDoc(j)
    /\ Len(j.issues.xs) >= 1
    /\ WellFormedIssue(j.issues.xs[1])
    /\ \A n \in 2..Len(j.issues.xs) : WellFormedSubIssue(j.issues.xs[n])

(***************************************************************************)
(* Properties of proc_task.                                                *)
(***************************************************************************)
\* C1: for a well-formed root document proc_task does not raise and returns
\* three values: the report, the metadata (whose file name is the generated
\* identifier followed by ".md") and the key of the main task.
C1_ReturnsThreeValues ==
    Returned("proc_task") /\ args.is_main_task /\ WellFormedRoot(args.json_result) =>
        /\ IsOk(result)
        /\ Len(result.val) = 3
        /\ result.val[3] = args.json_result.issues.xs[1].key
        /\ JsonLoads(result.val[2]).file_name
             = PyStr(ToStr(calls[Len(calls)].record_id) \o ".md")

\* C9: two calls of proc_task on the same input give two different record
\* identifiers and file names in the metadata, and the same report and key.
C9_FreshIdentifierSameReport ==
    /\ Returned("proc_task")
    /\ Len(calls) = 2
    /\ calls[1].args = calls[2].args
    /\ args.is_main_task
    /\ WellFormedRoot(args.json_result)
    => /\ IsOk(calls[1].result)
       /\ IsOk(calls[2].result)
       /\ JsonLoads(calls[1].result.val[2]).file_record_id
            # JsonLoads(calls[2].result.val[2]).file_record_id
       /\ JsonLoads(calls[1].result.val[2]).file_name
            # JsonLoads(calls[2].result.val[2]).file_name
       /\ calls[1].result.val[1] = calls[2].result.val[1]
       /\ calls[1].result.val[3] = calls[2].result.val[3]

\* C3: with is_main_task false and one well-formed issue record passed
\* directly, the extraction succeeds and gives the flat mapping, the
\* attachment list and an empty sub-task list.
C3_SingleIssueExtracts ==
    Returned("extract") /\ ~args.is_main_task /\ WellFormedIssue(args.json_result) =>
        /\ IsOk(result)
        /\ result.val.sub_task_list = <<>>
        /\ result.val.md_dict.summary = args.json_result.fields.summary

\* The main task of the root document of an extraction
MainOf(a) == a.json_result.issues.xs[1]

\* An extraction from a root document with a main task
ExtractedRoot ==
    /\ Returned("extract")
    /\ args.is_main_task
    /\ IsRootDoc(args.json_result)
    /\ Len(args.json_result.issues.xs) >= 1

\* v is the value of a field that is absent, null or empty
IsEmptyField(fields, k) == k \notin DOMAIN fields \/ ~Truthy(fields[k])

\* C4: each of the two custom fields gives its derived text when present and
\* non-empty, and the empty text, without failing, when absent, null or empty.
C4_OptionalCustomFields ==
    ExtractedRoot /\ RequiredPresent(MainOf(args))
                  /\ "attachment" \in DOMAIN MainOf(args).fields =>
        LET fields == MainOf(args).fields
        IN /\ IsOk(result)
           /\ result.val.md_dict.acceptanceCriteriaFieldName =
                IF IsEmptyField(fields, "customfield_27708") THEN PyStr("")
                ELSE PyStr("Given a\nThen b")
           /\ result.val.md_dict.marketAffectedFieldName =
                IF IsEmptyField(fields, "customfield_26615") THEN PyStr("")
                ELSE fields.customfield_26615.xs[1].value

\* C5: the attachment list is empty when the task has no attachments (absent,
\* null or empty), and else has one mapping per attachment, in order, with
\* file_id=id, file_name=filename, created=created, size=size, url=content.
C5_AttachmentList ==
    ExtractedRoot /\ RequiredPresent(MainOf(args))
                  /\ {"customfield_27708", "customfield_26615"}
                        \subseteq DOMAIN MainOf(args).fields =>
        LET fields == MainOf(args).fields
        IN /\ IsOk(result)
           /\ IF IsEmptyField(fields, "attachment") THEN result.val.attach_list = <<>>
              ELSE /\ Len(result.val.attach_list) = Len(fields.attachment.xs)
                   /\ \A i \in 1..Len(fields.attachment.xs) :
                         LET info == fields.attachment.xs[i]
                             a == result.val.attach_list[i]
                         IN /\ a.file_id = info.id
                            /\ a.file_name = info.filename
                            /\ a.created = info.created
                            /\ a.size = info.size
                            /\ a.url = info.content

C10_MissingRequiredFieldRaises ==
    /\ Returned("proc_task") /\ args.is_main_task /\ IsRootDoc(args.json_result)
         /\ ~RequiredPresent(MainOf(args))
       => result = Raise(result.exc) /\ ~IsOk(result)
    /\ ExtractedRoot /\ ~RequiredPresent(MainOf(args))
       => \/ result = Raise("KeyError")
          \/ /\ IsOk(result)
             /\ "self" \notin DOMAIN MainOf(args)
             /\ \A n \in 1..MaxUuid :
                   OriginalPath(result.val.main_task, PyStr(UuidText(n) \o ".md"))
                     = Raise("KeyError")

C10_Witness ==
    /\ ExtractedRoot
    /\ "summary" \notin DOMAIN MainOf(args).fields
    /\ Len(args.json_result.issues.xs) = 2
    /\ result = Raise("KeyError")

====
